---------------------------- MODULE Spec2Model ----------------------------
(***************************************************************************)
(* Model of scripts/generate-example.py (wafflestudio/retrochat).          *)
(*                                                                         *)
(* The script has three layers, each modelled by the operators that bear   *)
(* the source's names:                                                     *)
(*   find_largest_matching_file   the File Locator                         *)
(*   filter_json_file, filter_jsonl_file, copy_example_file                *)
(*                                the Content Sampler                      *)
(*   main                         the Orchestrator                         *)
(*                                                                         *)
(* A file's content is a sequence of chunks.  A chunk is a string that     *)
(* stands for a run of bytes: "CR" and "LF" are the two line-terminator    *)
(* bytes, "SP" a run of blanks, "BAD" a byte sequence that is not valid    *)
(* UTF-8, and every other chunk a run of ordinary text or one JSON token.  *)
(* The platform is POSIX (os.linesep = "\n").                              *)
(***************************************************************************)
EXTENDS Integers, Sequences, FiniteSets, TLC

(***************************************************************************)
(* Bounds of the model.                                                    *)
(***************************************************************************)
MaxLen == 3          \* longest raw byte sequence enumerated
MaxItems == 2        \* longest JSON array enumerated element by element
MaxRecords == 21     \* longest generated file of numbered records
MaxL == 1            \* largest max_lines of a direct call of a filter
MaxRuns == 2         \* calls of the sampler in one behaviour
MaxFiles == 2        \* entries of a scanned directory
MaxSize == 2         \* largest st_size of an entry

(***************************************************************************)
(* Program constants.                                                      *)
(***************************************************************************)
TopRows == 20        \* max_lines=20 in copy_example_file
NProviders == 4      \* len(PROVIDERS)

----------------------------------------------------------------------------
(***************************************************************************)
(* Sequence helpers.                                                       *)
(***************************************************************************)
Min(a, b) == IF a <= b THEN a ELSE b

\* The members of ss one after the other (halved, to keep evaluation shallow).
RECURSIVE Concat(_)
Concat(ss) ==
  IF Len(ss) = 0 THEN <<>>
  ELSE IF Len(ss) = 1 THEN ss[1]
  ELSE LET h == Len(ss) \div 2
       IN  Concat(SubSeq(ss, 1, h)) \o Concat(SubSeq(ss, h + 1, Len(ss)))

Take(s, n) == SubSeq(s, 1, Min(n, Len(s)))

RECURSIVE SeqsUpTo(_, _)
SeqsUpTo(S, n) ==
  IF n = 0 THEN {<<>>}
  ELSE LET shorter == SeqsUpTo(S, n - 1)
       IN  shorter \cup {Append(s, x) : s \in shorter, x \in S}

----------------------------------------------------------------------------
(***************************************************************************)
(* Text-mode file I/O: open(path, 'r' / 'w', encoding='utf-8').            *)
(***************************************************************************)

\* Universal newlines on read: "\r\n" and a lone "\r" both become "\n".
\* The "\n" that directly follows a "\r" is dropped, then every "\r" is a "\n".
TranslateNewlines(b) ==
  LET seen == [i \in 1..Len(b) |->
                 [c |-> b[i], afterCR |-> i > 1 /\ b[i - 1] = "CR"]]
      kept == SelectSeq(seen, LAMBDA x : ~(x.c = "LF" /\ x.afterCR))
  IN  [i \in 1..Len(kept) |-> IF kept[i].c = "CR" THEN "LF" ELSE kept[i].c]

\* Index of the first chunk of s that is in S, or Len(s) + 1.
FirstIn(s, S) ==
  IF \E i \in 1..Len(s) : s[i] \in S
  THEN CHOOSE i \in 1..Len(s) : s[i] \in S /\ \A j \in 1..(i - 1) : s[j] \notin S
  ELSE Len(s) + 1

\* The bytes that precede the first byte sequence that is not UTF-8.
DecodablePrefix(b) == SubSeq(b, 1, FirstIn(b, {"BAD"}) - 1)

\* f.read() / iteration of a text file: the decoded text, or a decode error.
Decode(b) ==
  IF FirstIn(b, {"BAD"}) <= Len(b)
  THEN [ok |-> FALSE, text |-> <<>>]
  ELSE [ok |-> TRUE, text |-> TranslateNewlines(b)]

\* The one character the utf-8 codec refuses to encode: a lone surrogate.
Surrogate == "\"<U+D800>\""

\* Lines of a text as the file iterator yields them, terminator included.
\* A line ends at each "\n" and at the end of the text.
SplitLines(t) ==
  LET ends == SelectSeq([i \in 1..Len(t) |-> i],
                        LAMBDA i : t[i] = "LF" \/ i = Len(t))
  IN  [n \in 1..Len(ends) |->
         SubSeq(t, IF n = 1 THEN 1 ELSE ends[n - 1] + 1, ends[n])]

TextLines(t) == SplitLines(t)


----------------------------------------------------------------------------
(***************************************************************************)
(* JSON: json.load and json.dump(indent=2, ensure_ascii=False).            *)
(*                                                                         *)
(* A JSON token is one chunk.  A parsed value is a record                  *)
(*   [t |-> "scalar", s |-> canonical form, k |-> <<>>, e |-> <<>>]        *)
(*   [t |-> "array",  s |-> "", k |-> <<>>, e |-> elements]                *)
(*   [t |-> "object", s |-> "", k |-> keys, e |-> values] (insertion order)*)
(* The canonical form of a scalar is the token json.dump writes for the    *)
(* Python object json.load made of it.                                     *)
(***************************************************************************)
NumTok(i) == ToString(i)

NumberTokens == {NumTok(i) : i \in 0..(MaxRecords + 1)} \cup {"1e2", "100.0"}
StringTokens == {"\"k\"", "\"j\"", "\"\\u00e9\"", "\"e-acute\"", "\"\\ud800\""}
ScalarTokens == NumberTokens \cup StringTokens
Whitespace   == {"SP", "LF", "CR"}

\* float('1e2') is written back as 100.0; an escaped character is written
\* back unescaped (ensure_ascii=False); an escaped lone surrogate becomes a
\* str holding that surrogate.
Canon(tok) ==
  CASE tok = "1e2"           -> "100.0"
    [] tok = "\"\\u00e9\""   -> "\"e-acute\""
    [] tok = "\"\\ud800\""   -> Surrogate
    [] OTHER                 -> tok

Scalar(s)     == [t |-> "scalar", s |-> s,  k |-> <<>>, e |-> <<>>]
Array(e)      == [t |-> "array",  s |-> "", k |-> <<>>, e |-> e]
Object(k, e)  == [t |-> "object", s |-> "", k |-> k,    e |-> e]
NoValue       == [t |-> "none",   s |-> "", k |-> <<>>, e |-> <<>>]

ParseFail     == [ok |-> FALSE, v |-> NoValue, i |-> 0]
Parsed(v, i)  == [ok |-> TRUE, v |-> v, i |-> i]

\* The first index from i on that holds no whitespace, or Len(t) + 1.
SkipWs(t, i) ==
  IF \E n \in i..Len(t) : t[n] \notin Whitespace
  THEN CHOOSE n \in i..Len(t) :
         t[n] \notin Whitespace /\ \A m \in i..(n - 1) : t[m] \in Whitespace
  ELSE Len(t) + 1

\* Brackets and braces opened and not yet closed in t[j..m].
Nesting(t, j, m) ==
  Cardinality({n \in j..m : t[n] \in {"[", "{"}})
    - Cardinality({n \in j..m : t[n] \in {"]", "}"}})

\* Where the container opened at j is closed, or 0 when it never is.
CloserOf(t, j) ==
  IF \E c \in (j + 1)..Len(t) : Nesting(t, j, c) = 0
  THEN CHOOSE c \in (j + 1)..Len(t) :
         Nesting(t, j, c) = 0 /\ \A m \in (j + 1)..(c - 1) : Nesting(t, j, m) # 0
  ELSE 0

\* The container's own delimiters: its opener, the commas between its items
\* and its closer, in order.
Delimiters(t, j, c) ==
  SelectSeq([n \in 1..(c - j + 1) |-> j + n - 1],
            LAMBDA m : m = j \/ m = c \/ (t[m] = "," /\ Nesting(t, j, m) = 1))

\* d = {}; d[key] = value for each member in turn: a repeated key keeps its
\* first position and its last value.
PutMembers(keys, vals) ==
  LET firsts == SelectSeq([n \in 1..Len(keys) |-> n],
                          LAMBDA n : \A m \in 1..(n - 1) : keys[m] # keys[n])
      last(key) == CHOOSE m \in 1..Len(keys) :
                     keys[m] = key /\ \A l \in (m + 1)..Len(keys) : keys[l] # key
  IN  Object([i \in 1..Len(firsts) |-> keys[firsts[i]]],
             [i \in 1..Len(firsts) |-> vals[last(keys[firsts[i]])]])

\* t[from..to] is one value between optional whitespace.
RECURSIVE ParseValue(_, _), ParseItem(_, _, _), ParseElements(_, _, _),
          ParseMembers(_, _, _)
ParseItem(t, from, to) ==
  LET item == SubSeq(t, from, to)
      r    == ParseValue(item, 1)
  IN  IF r.ok /\ SkipWs(item, r.i) > Len(item) THEN r ELSE ParseFail

\* The value that starts at or after index i of t, and the index after it.
ParseValue(t, i) ==
  LET j == SkipWs(t, i) IN
  IF j > Len(t) THEN ParseFail
  ELSE IF t[j] \in ScalarTokens THEN Parsed(Scalar(Canon(t[j])), j + 1)
  ELSE IF t[j] \in {"[", "{"}
       THEN LET c == CloserOf(t, j) IN
            IF c = 0 THEN ParseFail
            ELSE IF t[j] = "[" THEN ParseElements(t, j, c)
            ELSE ParseMembers(t, j, c)
  ELSE ParseFail

ParseElements(t, j, c) ==
  LET d  == Delimiters(t, j, c)
      rs == [n \in 1..(Len(d) - 1) |-> ParseItem(t, d[n] + 1, d[n + 1] - 1)]
  IN  IF t[c] # "]" THEN ParseFail
      ELSE IF SkipWs(t, j + 1) = c THEN Parsed(Array(<<>>), c + 1)
      ELSE IF \A n \in 1..Len(rs) : rs[n].ok
           THEN Parsed(Array([n \in 1..Len(rs) |-> rs[n].v]), c + 1)
           ELSE ParseFail

ParseMembers(t, j, c) ==
  LET d  == Delimiters(t, j, c)
      \* member n: its key, the colon, its value
      k(n)  == SkipWs(t, d[n] + 1)
      cl(n) == SkipWs(t, k(n) + 1)
      wellFormed(n) == /\ k(n) < d[n + 1] /\ t[k(n)] \in StringTokens
                       /\ cl(n) < d[n + 1] /\ t[cl(n)] = ":"
      rs == [n \in 1..(Len(d) - 1) |->
               IF wellFormed(n) THEN ParseItem(t, cl(n) + 1, d[n + 1] - 1)
               ELSE ParseFail]
  IN  IF t[c] # "}" THEN ParseFail
      ELSE IF SkipWs(t, j + 1) = c THEN Parsed(Object(<<>>, <<>>), c + 1)
      ELSE IF \A n \in 1..Len(rs) : rs[n].ok
           THEN Parsed(PutMembers([n \in 1..Len(rs) |-> Canon(t[k(n)])],
                                  [n \in 1..Len(rs) |-> rs[n].v]), c + 1)
           ELSE ParseFail

\* json.loads(text): one value, then nothing but whitespace.
WholeText(text, r) ==
  IF r.ok /\ SkipWs(text, r.i) > Len(text)
  THEN [ok |-> TRUE, v |-> r.v]
  ELSE [ok |-> FALSE, v |-> NoValue]

json_loads(text) == WholeText(text, ParseValue(text, 1))

\* json.load(f) on a file opened as utf-8 text: decode, then parse.
LoadDecoded(d) ==
  IF d.ok THEN json_loads(d.text) ELSE [ok |-> FALSE, v |-> NoValue]

json_load(bytes) == LoadDecoded(Decode(bytes))

\* "\n" followed by `level` indentation units of two blanks.
NewlineIndent(level) == <<"LF">> \o [n \in 1..level |-> "SP"]

\* The strings json.dump hands to fp.write, one after the other: each is a
\* sequence of chunks.  A scalar element of a list is written together with
\* the separator before it.
RECURSIVE DumpChunks(_, _), DumpList(_, _), DumpDict(_, _, _, _)
DumpChunks(v, level) ==
  CASE v.t = "scalar" -> << <<v.s>> >>
    [] v.t = "array"  ->
         IF v.e = <<>> THEN << <<"[", "]">> >>
         ELSE DumpList(v.e, level + 1) \o <<NewlineIndent(level), <<"]">> >>
    [] v.t = "object" ->
         IF v.k = <<>> THEN << <<"{", "}">> >>
         ELSE << <<"{">>, NewlineIndent(level + 1) >>
              \o DumpDict(v.k, v.e, level + 1, TRUE)
              \o <<NewlineIndent(level), <<"}">> >>
    [] OTHER -> <<>>

DumpList(e, level) ==
  Concat([n \in 1..Len(e) |->
    LET buf == (IF n = 1 THEN <<"[">> ELSE <<",">>) \o NewlineIndent(level)
    IN  IF e[n].t = "scalar"
        THEN << buf \o <<e[n].s>> >>
        ELSE <<buf>> \o DumpChunks(e[n], level)])

DumpDict(k, e, level, first) ==
  IF k = <<>> THEN <<>>
  ELSE (IF first THEN <<>> ELSE << <<",">> \o NewlineIndent(level) >>)
       \o << <<Head(k)>>, <<":", "SP">> >>
       \o DumpChunks(Head(e), level)
       \o DumpDict(Tail(k), Tail(e), level, FALSE)

\* What json.dump(v, f, indent=2, ensure_ascii=False) leaves in a text file
\* opened for writing: every string written before the first one the utf-8
\* codec cannot encode, and whether all of them were written.
WriteAll(chunks) ==
  LET refused == {n \in 1..Len(chunks) :
                    \E m \in 1..Len(chunks[n]) : chunks[n][m] = Surrogate}
      written == IF refused = {} THEN Len(chunks)
                 ELSE (CHOOSE n \in refused : \A m \in refused : n <= m) - 1
  IN  [ok |-> refused = {}, bytes |-> Concat(SubSeq(chunks, 1, written))]

json_dump(v) == WriteAll(DumpChunks(v, 0))

----------------------------------------------------------------------------
(***************************************************************************)
(* The Content Sampler.                                                    *)
(*                                                                         *)
(* A source is [suffix, bytes, readable, delivered]: Path.suffix, the       *)
(* content, whether open(source) succeeds, and how many lines a text       *)
(* reader yields before it meets the file's first undecodable byte (a      *)
(* property of the file's layout: the reader decodes a buffer at a time).  *)
(* A destination is [exists, bytes].  `writable` says whether opening the  *)
(* destination for writing succeeds.                                       *)
(***************************************************************************)
NoFile      == [exists |-> FALSE, bytes |-> <<>>]
FileOf(b)   == [exists |-> TRUE, bytes |-> b]

\* Mutant of OpenForWriting: the file is opened with 'a', not truncated.
OpenForWriting_Append(dest) == dest

\* open(dest, 'w'): the file is created or truncated; writes append to it.
OpenForWriting(dest) == FileOf(<<>>)

\* str.lower() of Path.suffix.
Lower(suffix) ==
  CASE suffix = ".JSONL" -> ".jsonl"
    [] suffix = ".Json"  -> ".json"
    [] suffix = ".DB"    -> ".db"
    [] OTHER             -> suffix

\* Lines of the decodable prefix of a file that end with a terminator: the
\* lines a text reader can have yielded before it meets an undecodable byte.
CompleteLines(b) ==
  LET ls == TextLines(TranslateNewlines(DecodablePrefix(b)))
  IN  IF ls # <<>> /\ ls[Len(ls)][Len(ls[Len(ls)])] # "LF"
      THEN SubSeq(ls, 1, Len(ls) - 1)
      ELSE ls

\* The values `delivered` can have for a content: any number of the complete
\* lines before the undecodable byte (0 when the file decodes).
Deliverable(b) ==
  IF Decode(b).ok THEN {0} ELSE 0..Len(CompleteLines(b))

\* with open(dest, 'w') as f: json.dump(...): the file holds what was
\* written when the dump raised.
Dumped(w, dest) ==
  [ret |-> w.ok, dest |-> FileOf(OpenForWriting(dest).bytes \o w.bytes)]

\* Mutant of FilteredData: an object is cut to max_lines members as well.
FilteredData_CutsObjects(data, max_lines) ==
  IF data.t = "array" THEN Array(Take(data.e, max_lines))
  ELSE IF data.t = "object"
       THEN Object(Take(data.k, max_lines), Take(data.e, max_lines))
  ELSE data

\* data[:max_lines] of a list; any other value whole.
FilteredData(data, max_lines) ==
  IF data.t = "array" THEN Array(Take(data.e, max_lines)) ELSE data

\* The part of filter_json_file that follows json.load.
DumpFiltered(p, dest, writable, max_lines) ==
  IF ~p.ok \/ ~writable THEN [ret |-> FALSE, dest |-> dest]
  ELSE Dumped(json_dump(FilteredData(p.v, max_lines)), dest)

\* filter_json_file(source, dest, max_lines): [ret, dest].
filter_json_file(source, dest, writable, max_lines) ==
  IF ~source.readable THEN [ret |-> FALSE, dest |-> dest]
  ELSE DumpFiltered(json_load(source.bytes), dest, writable, max_lines)

\* Mutant of filter_jsonl_file: the loop breaks on i > max_lines, one line
\* late.
filter_jsonl_file_OneLineLate(source, dest, writable, max_lines) ==
  LET d == Decode(source.bytes)
      lines == IF d.ok THEN TextLines(d.text) ELSE CompleteLines(source.bytes)
      fails == ~d.ok /\ source.delivered <= max_lines + 1
      kept == IF fails THEN Take(lines, source.delivered)
              ELSE Take(lines, max_lines + 1)
  IN  IF ~source.readable THEN [ret |-> FALSE, dest |-> dest]
      ELSE IF ~writable THEN [ret |-> FALSE, dest |-> dest]
      ELSE [ret |-> ~fails,
            dest |-> FileOf(OpenForWriting(dest).bytes \o Concat(kept))]

\* filter_jsonl_file(source, dest, max_lines): [ret, dest].
filter_jsonl_file(source, dest, writable, max_lines) ==
  LET d == Decode(source.bytes)
      lines == IF d.ok THEN TextLines(d.text) ELSE CompleteLines(source.bytes)
      \* the loop asks for line max_lines + 1 before it breaks
      fails == ~d.ok /\ source.delivered <= max_lines
      kept == IF fails THEN Take(lines, source.delivered) ELSE Take(lines, max_lines)
  IN  IF ~source.readable THEN [ret |-> FALSE, dest |-> dest]
      ELSE IF ~writable THEN [ret |-> FALSE, dest |-> dest]
      ELSE [ret |-> ~fails,
            dest |-> FileOf(OpenForWriting(dest).bytes \o Concat(kept))]

\* Mutant of copy2: the copy goes through text mode, which translates the
\* line terminators.
copy2_AsText(source, dest, writable) ==
  IF source.readable /\ writable
  THEN [raised |-> FALSE, dest |-> FileOf(TranslateNewlines(source.bytes))]
  ELSE [raised |-> TRUE, dest |-> dest]

\* shutil.copy2(source, dest): a byte copy; raises when either end fails.
copy2(source, dest, writable) ==
  IF source.readable /\ writable
  THEN [raised |-> FALSE, dest |-> FileOf(source.bytes)]
  ELSE [raised |-> TRUE, dest |-> dest]

\* copy_example_file(source, dest_dir, example_name): [ret, dest], ret one of
\* "True", "False", or "raised" when dest_dir.mkdir() raises (it is called
\* before the try block).  The filters are called with max_lines=20.
\* Mutant of FilterFor: every suffix but .json takes the JSONL filter.
FilterFor_LinesByDefault(suffix, source, dest, writable) ==
  IF suffix = ".json"
  THEN filter_json_file(source, dest, writable, TopRows)
  ELSE filter_jsonl_file(source, dest, writable, TopRows)

\* The filter the suffix selects, called with max_lines=20; no filter (and
\* so the plain copy) for any other suffix.
FilterFor(suffix, source, dest, writable) ==
  IF suffix = ".jsonl"
  THEN filter_jsonl_file(source, dest, writable, TopRows)
  ELSE IF suffix = ".json"
  THEN filter_json_file(source, dest, writable, TopRows)
  ELSE [ret |-> FALSE, dest |-> dest]

\* shutil.copy2 inside the try block: an exception is caught, False returned.
CopyOutcome(c) ==
  IF c.raised THEN [ret |-> "False", dest |-> c.dest]
  ELSE [ret |-> "True", dest |-> c.dest]

FilteredOrCopied(f, source, writable) ==
  IF f.ret THEN [ret |-> "True", dest |-> f.dest]
  ELSE CopyOutcome(copy2(source, f.dest, writable))

copy_example_file(source, dest, writable, mkdirOk) ==
  IF ~mkdirOk THEN [ret |-> "raised", dest |-> dest]
  ELSE FilteredOrCopied(
         FilterFor(Lower(source.suffix), source, dest, writable),
         source, writable)

----------------------------------------------------------------------------
(***************************************************************************)
(* The File Locator.                                                       *)
(*                                                                         *)
(* A directory is [exists, entries]; entries is the sequence of the files  *)
(* below it in the order the recursive glob walks them.  An entry is       *)
(* [name, size, bytes, readable]: its base name, its st_size (StatFails    *)
(* when Path.stat() raises on it, as on a dangling symbolic link), and the *)
(* content the sampler would read.  A match is an index into entries (a    *)
(* path).                                                                  *)
(***************************************************************************)
StatFails == -1

PROVIDERS ==
  << [id |-> "claude-code", patterns |-> <<"*.jsonl", "*claude-code*.json*">>,
      example_name |-> "claude.jsonl"],
     [id |-> "gemini", patterns |-> <<"session-*.json">>,
      example_name |-> "gemini.json"],
     [id |-> "codex", patterns |-> <<"*.jsonl">>,
      example_name |-> "codex.jsonl"],
     [id |-> "cursor", patterns |-> <<"store.db", "*cursor*.db">>,
      example_name |-> "cursor.db"] >>

\* fnmatch of the base names the model uses against the providers' patterns.
GlobMatch(name, pattern) ==
  CASE pattern = "*.jsonl" -> name \in {"a.jsonl", "claude-code.jsonl"}
    [] pattern = "*claude-code*.json*" ->
         name \in {"claude-code.json", "claude-code.jsonl"}
    [] pattern = "session-*.json" -> name \in {"session-1.json"}
    [] pattern = "store.db" -> name \in {"store.db"}
    [] pattern = "*cursor*.db" -> name \in {"my-cursor.db"}
    [] OTHER -> FALSE

\* list(directory.glob("**/" + pattern)): the matching paths in walk order.
RECURSIVE GlobFrom(_, _, _)
GlobFrom(entries, pattern, n) ==
  IF n > Len(entries) THEN <<>>
  ELSE (IF GlobMatch(entries[n].name, pattern) THEN <<n>> ELSE <<>>)
       \o GlobFrom(entries, pattern, n + 1)

glob(entries, pattern) == GlobFrom(entries, pattern, 1)

\* all_matches after the loop over the patterns: one list, repeats kept.
RECURSIVE AllMatches(_, _)
AllMatches(entries, patterns) ==
  IF patterns = <<>> THEN <<>>
  ELSE glob(entries, Head(patterns)) \o AllMatches(entries, Tail(patterns))

\* list.sort(key=size, reverse=True) is stable: an element goes behind every
\* element already placed whose key is at least its own.
RECURSIVE InsertBySize(_, _, _)
InsertBySize(entries, sorted, m) ==
  IF sorted = <<>> THEN <<m>>
  ELSE IF entries[Head(sorted)].size >= entries[m].size
       THEN <<Head(sorted)>> \o InsertBySize(entries, Tail(sorted), m)
       ELSE <<m>> \o sorted

RECURSIVE SortLargestFirst(_, _, _)
SortLargestFirst(entries, sorted, rest) ==
  IF rest = <<>> THEN sorted
  ELSE SortLargestFirst(entries, InsertBySize(entries, sorted, Head(rest)),
                        Tail(rest))

\* find_largest_matching_file(directory, patterns): [status, path] with
\* status "None", "found", or "raised" when a stat() of the sort key raises.
find_largest_matching_file(directory, patterns) ==
  LET all_matches == AllMatches(directory.entries, patterns)
  IN  IF ~directory.exists THEN [status |-> "None", path |-> 0]
      ELSE IF all_matches = <<>> THEN [status |-> "None", path |-> 0]
      ELSE IF \E n \in 1..Len(all_matches) :
                 directory.entries[all_matches[n]].size = StatFails
           THEN [status |-> "raised", path |-> 0]
      ELSE [status |-> "found",
            path |-> Head(SortLargestFirst(directory.entries, <<>>,
                                           all_matches))]

----------------------------------------------------------------------------
(***************************************************************************)
(* The files the sampler is run on.                                        *)
(***************************************************************************)
RawAlphabet == {"a", "CR", "LF", "BAD"}
RawContents == SeqsUpTo(RawAlphabet, MaxLen)

\* n numbered records, one per line, each ended by `terminator`.
NumberedLines(n, terminator) ==
  Concat([i \in 1..n |-> <<NumTok(i)>> \o terminator])

Join(docs) ==
  Concat([i \in 1..Len(docs) |-> IF i = 1 THEN docs[i] ELSE <<",">> \o docs[i]])

ArrayDoc(docs) == <<"[">> \o Join(docs) \o <<"]">>

Elements ==
  { <<"1">>, <<"1e2">>, <<"\"\\u00e9\"">>, <<"\"\\ud800\"">>,
    <<"{", "\"k\"", ":", "2", "}">>, <<"[", "3", "]">> }

\* The array 1, 2, ..., n; with `first` not empty, `first` replaces the 1.
NumberedArray(n, first) ==
  ArrayDoc([i \in 1..n |-> IF i = 1 /\ first # <<>> THEN first
                           ELSE <<NumTok(i)>>])

ArrayDocs ==
  {ArrayDoc(es) : es \in SeqsUpTo(Elements, MaxItems)}
    \cup {NumberedArray(n, <<>>) : n \in (MaxItems + 1)..MaxRecords}
    \cup {NumberedArray(n, <<"\"\\ud800\"">>) : n \in (MaxItems + 1)..MaxRecords}
    \cup { <<"CR", "LF", "[", "1", ",", "CR", "2", "SP", "]", "LF">> }

NonArrayDocs ==
  {e \in Elements : Len(e) = 1}
    \cup {<<"{", "\"k\"", ":">> \o e \o <<"}">> : e \in Elements}
    \cup { <<"{", "}">>,
           <<"{", "\"k\"", ":", "1", ",", "\"k\"", ":", "2", "}">>,
           <<"{", "\"j\"", ":", "1", ",", "\"k\"", ":", "\"\\ud800\"", "}">>,
           <<"{", "\"j\"", ":", "1e2", ",", "\"k\"", ":",
             "[", "1", ",", "2", "]", "}">>,
           <<"SP", "{", "\"\\u00e9\"", "SP", ":", "CR", "LF", "1", "}">> }

MalformedDocs ==
  { <<>>, <<"a">>, <<"[", "1", ",">>, <<"[", "1", ",", "]">>,
    <<"[", "1", "]", "]">>, <<"{", "1", ":", "1", "}">>,
    <<"[", "BAD", "]">>, <<"[", "1", "]", "BAD">> }

JsonlContents ==
  RawContents
    \cup {NumberedLines(n, <<"LF">>) : n \in 0..MaxRecords}
    \cup {NumberedLines(n, <<"CR", "LF">>) : n \in 1..MaxRecords}
JsonContents   == ArrayDocs \cup NonArrayDocs \cup MalformedDocs
OpaqueContents ==
  SeqsUpTo(RawAlphabet, 2) \cup {<<"[", "1", ",", "2", "]">>}

SourcesOf(suffixes, contents) ==
  UNION { [suffix : suffixes, bytes : {b}, readable : BOOLEAN,
           delivered : Deliverable(b)] : b \in contents }

Sources ==
  SourcesOf({".jsonl"}, JsonlContents)
    \cup SourcesOf({".JSONL"}, SeqsUpTo(RawAlphabet, 2))
    \cup SourcesOf({".json"}, JsonContents)
    \cup SourcesOf({".Json"}, MalformedDocs \cup {e \in Elements : TRUE})
    \cup SourcesOf({".db", ".DB", "", ".txt", ".jsonl2"}, OpaqueContents)

----------------------------------------------------------------------------
VARIABLES
  source,        \* the file the sampler reads
  dest,          \* the destination file
  writable,      \* whether the destination can be opened for writing
  mkdirOk,       \* whether dest_dir.mkdir(parents=True, exist_ok=True) succeeds
  calls,         \* calls of the sampler made so far
  last,          \* the last call: [fn, L, ret]
  prevDest,      \* the destination before the last call
  directory,     \* the directory the locator scans
  patterns,      \* the patterns it is given
  found,         \* what the locator returned
  pc,            \* main: "idle", "loop", "done", "crashed"
  provider,      \* main: index of the provider the loop is at
  success_count, \* main
  outcomes,      \* main: what happened to each provider processed so far
  exit_status,   \* the process exit status; -1 while the process runs
  examples       \* main: the examples directory, example name -> file

samplerVars == <<source, dest, writable, calls, last, prevDest>>
locatorVars == <<directory, patterns, found>>
mainVars    == <<pc, provider, success_count, outcomes, exit_status, examples>>
vars == <<source, dest, writable, mkdirOk, calls, last, prevDest,
          directory, patterns, found,
          pc, provider, success_count, outcomes, exit_status, examples>>

NoSource    == [suffix |-> "", bytes |-> <<>>, readable |-> FALSE, delivered |-> 0]
NoCall      == [fn |-> "none", L |-> 0, ret |-> "none"]
NoDirectory == [exists |-> FALSE, entries |-> <<>>]
NotCalled   == [status |-> "not called", path |-> 0]
Running     == -1

SamplerIdle ==
  /\ source = NoSource /\ dest = NoFile /\ writable = TRUE
  /\ calls = 0 /\ last = NoCall /\ prevDest = NoFile
LocatorIdle ==
  directory = NoDirectory /\ patterns = <<>> /\ found = NotCalled
MainIdle ==
  /\ pc = "idle" /\ provider = 0 /\ success_count = 0 /\ outcomes = <<>>
  /\ exit_status = Running /\ examples = <<>>

----------------------------------------------------------------------------
(***************************************************************************)
(* The sampler on its own: Init draws the source and the environment, and  *)
(* the actions call the sampler's three functions.  The filters are called *)
(* with any max_lines up to MaxL; copy_example_file has no parameter for a *)
(* row limit, so the limit its caller wants (rowLimit) never reaches it.   *)
(* A second call repeats the first, on the destination the first left.     *)
(***************************************************************************)
Init ==
  /\ source \in Sources
  /\ dest = NoFile
  /\ writable \in BOOLEAN
  /\ mkdirOk \in BOOLEAN
  /\ calls = 0 /\ last = NoCall /\ prevDest = NoFile
  /\ LocatorIdle /\ MainIdle

MayCall(fn, L) ==
  /\ calls < MaxRuns
  /\ calls > 0 => last.fn = fn /\ last.L = L

Called(fn, L, r) ==
  /\ dest' = r.dest
  /\ prevDest' = dest
  /\ last' = [fn |-> fn, L |-> L, ret |-> r.ret]
  /\ calls' = calls + 1
  /\ UNCHANGED <<source, writable, mkdirOk, locatorVars, mainVars>>

\* A filter's result with its bool spelled as copy_example_file's is.
Spelled(r) == [ret |-> IF r.ret THEN "True" ELSE "False", dest |-> r.dest]

FilterJsonl(L) ==
  /\ MayCall("filter_jsonl_file", L)
  /\ Lower(source.suffix) = ".jsonl"
  /\ Called("filter_jsonl_file", L,
            Spelled(filter_jsonl_file(source, dest, writable, L)))

FilterJson(L) ==
  /\ MayCall("filter_json_file", L)
  /\ Lower(source.suffix) = ".json"
  /\ Called("filter_json_file", L,
            Spelled(filter_json_file(source, dest, writable, L)))

CopyExampleFile(rowLimit) ==
  /\ MayCall("copy_example_file", rowLimit)
  /\ Called("copy_example_file", rowLimit,
            copy_example_file(source, dest, writable, mkdirOk))

RowLimits == 0..MaxL \cup {TopRows}

Next ==
  \/ \E L \in 0..MaxL : FilterJsonl(L)
  \/ \E L \in 0..MaxL : FilterJson(L)
  \/ \E rowLimit \in RowLimits : CopyExampleFile(rowLimit)

Spec == Init /\ [][Next]_vars

----------------------------------------------------------------------------
(***************************************************************************)
(* The locator on its own: Init draws a directory snapshot and a           *)
(* provider's patterns, and Locate calls find_largest_matching_file.       *)
(***************************************************************************)
LocateNames == {"a.jsonl", "claude-code.json", "claude-code.jsonl", "notes.txt"}

LocateEntries ==
  [name : LocateNames, size : {StatFails} \cup 0..MaxSize,
   bytes : {<<>>}, readable : {TRUE}]

LocateDirectories ==
  {NoDirectory}
    \cup [exists : {TRUE}, entries : SeqsUpTo(LocateEntries, MaxFiles)]

LocateInit ==
  /\ directory \in LocateDirectories
  /\ patterns \in {PROVIDERS[1].patterns, PROVIDERS[3].patterns}
  /\ found = NotCalled
  /\ SamplerIdle /\ mkdirOk = TRUE /\ MainIdle

Locate ==
  /\ found = NotCalled
  /\ found' = find_largest_matching_file(directory, patterns)
  /\ UNCHANGED <<directory, patterns, samplerVars, mkdirOk, mainVars>>

LocateNext == Locate

LocateSpec == LocateInit /\ [][LocateNext]_vars

----------------------------------------------------------------------------
(***************************************************************************)
(* The orchestrator: main().  One step is one iteration of the loop over   *)
(* PROVIDERS; the directory the provider's default_dir holds and whether   *)
(* its example file can be written are drawn when the loop reaches it.     *)
(* An exception that leaves main() ends the process with a traceback and   *)
(* exit status 1.                                                          *)
(***************************************************************************)
\* The suffix of the base names the model uses (Path.suffix).
SuffixOf(name) ==
  CASE name \in {"a.jsonl", "claude-code.jsonl"} -> ".jsonl"
    [] name \in {"claude-code.json", "session-1.json"} -> ".json"
    [] name \in {"store.db", "my-cursor.db"} -> ".db"
    [] OTHER -> ".txt"

SourceOf(entry) ==
  [suffix |-> SuffixOf(entry.name), bytes |-> entry.bytes,
   readable |-> entry.readable, delivered |-> 0]

\* example_name: args.prefix spliced in front of the base name; the prefix
\* is the default, "local".
ExampleName(n) ==
  CASE PROVIDERS[n].example_name = "claude.jsonl" -> "local_claude.jsonl"
    [] PROVIDERS[n].example_name = "gemini.json"  -> "local_gemini.json"
    [] PROVIDERS[n].example_name = "codex.jsonl"  -> "local_codex.jsonl"
    [] PROVIDERS[n].example_name = "cursor.db"    -> "local_cursor.db"

ExampleNames == {ExampleName(n) : n \in 1..NProviders}

MainNames ==
  {"a.jsonl", "claude-code.json", "session-1.json", "store.db",
   "my-cursor.db", "notes.txt"}

MainContents ==
  { <<"1", "LF", "2", "CR", "LF">>, <<"[", "1", ",", "2", "]">>,
    <<"[", "1", ",">>, <<"BAD">> }

MainEntries ==
  [name : MainNames, size : {1}, bytes : MainContents, readable : BOOLEAN]
    \cup [name : MainNames, size : {StatFails}, bytes : {<<>>},
          readable : {FALSE}]

MainDirectories ==
  {NoDirectory}
    \cup [exists : {TRUE}, entries : SeqsUpTo(MainEntries, 1)]

\* Mutant of ExitCode: one generated example is enough for exit status 0.
ExitCode_AnySuccess(count, total_count) == IF count > 0 THEN 0 ELSE 1

\* return 0 if success_count == total_count else 1
ExitCode(count, total_count) == IF count = total_count THEN 0 ELSE 1

MainInit ==
  /\ pc = "loop" /\ provider = 1 /\ success_count = 0 /\ outcomes = <<>>
  /\ exit_status = Running
  /\ examples = [n \in ExampleNames |-> NoFile]
  /\ mkdirOk \in BOOLEAN
  /\ SamplerIdle /\ LocatorIdle

\* `if copy_example_file(...): success_count += 1`; an exception of
\* copy_example_file leaves main().
AfterCopy(copied) ==
  [outcome |-> CASE copied.ret = "raised" -> "raised"
                 [] copied.ret = "True"   -> "sampled"
                 [] OTHER                 -> "sample failed",
   file |-> copied.dest]

\* `if source_file:` and its else branch; an exception of
\* find_largest_matching_file leaves main().
AfterLocate(located, dir, file, canWrite) ==
  IF located.status = "raised" THEN [outcome |-> "raised", file |-> file]
  ELSE IF located.status = "None" THEN [outcome |-> "no match", file |-> file]
  ELSE AfterCopy(copy_example_file(SourceOf(dir.entries[located.path]),
                                   file, canWrite, mkdirOk))

\* One iteration of `for provider_id, config in PROVIDERS.items()`: what
\* happened, and the provider's example file afterwards.
Iteration(dir, file, canWrite) ==
  IF ~dir.exists THEN [outcome |-> "directory missing", file |-> file]
  ELSE AfterLocate(
         find_largest_matching_file(dir, PROVIDERS[provider].patterns),
         dir, file, canWrite)

\* The loop's bookkeeping for one iteration's outcome.
Iterated(r) ==
  /\ outcomes' = Append(outcomes, r.outcome)
  /\ examples' = [examples EXCEPT ![ExampleName(provider)] = r.file]
  /\ IF r.outcome = "raised"
     THEN /\ pc' = "crashed"
          /\ exit_status' = 1
          /\ UNCHANGED <<provider, success_count>>
     ELSE /\ provider' = provider + 1
          /\ success_count' =
               IF r.outcome = "sampled" THEN success_count + 1
               ELSE success_count
          /\ UNCHANGED <<pc, exit_status>>

ProcessProvider ==
  /\ pc = "loop"
  /\ provider <= NProviders
  /\ \E dir \in MainDirectories, canWrite \in BOOLEAN :
       Iterated(Iteration(dir, examples[ExampleName(provider)], canWrite))
  /\ UNCHANGED <<samplerVars, mkdirOk, locatorVars>>

\* The summary and `return 0 if success_count == total_count else 1`.
Return ==
  /\ pc = "loop"
  /\ provider > NProviders
  /\ pc' = "done"
  /\ exit_status' = ExitCode(success_count, Len(PROVIDERS))
  /\ UNCHANGED <<provider, success_count, outcomes, examples,
                 samplerVars, mkdirOk, locatorVars>>

MainNext == ProcessProvider \/ Return

MainSpec == MainInit /\ [][MainNext]_vars

----------------------------------------------------------------------------
(***************************************************************************)
(* What the claims speak of.                                               *)
(***************************************************************************)
JsonlSuffixes  == {".jsonl", ".JSONL"}
JsonSuffixes   == {".json", ".Json"}
OpaqueSuffixes == {".db", ".DB", "", ".txt", ".jsonl2"}

Sampled == calls > 0 /\ last.fn = "copy_example_file"

\* The limit the last call's filter ran with.
LimitUsed == IF last.fn = "copy_example_file" THEN TopRows ELSE last.L

\* The lines of a file as sequences of bytes, each with its terminator.
ByteLines(b) == SplitLines(b)

SourceValue == json_load(source.bytes)
DestValue   == json_load(dest.bytes)

\* The source is a JSON document the sampler can load.
SourceLoads == source.readable /\ SourceValue.ok

\* Records of a JSONL content: its lines, as a text reader counts them.
LineCount(b) == Len(TextLines(Decode(b).text))

RECURSIVE HoldsSurrogate(_)
HoldsSurrogate(v) ==
  \/ v.s = Surrogate
  \/ \E n \in 1..Len(v.k) : v.k[n] = Surrogate
  \/ \E n \in 1..Len(v.e) : HoldsSurrogate(v.e[n])

----------------------------------------------------------------------------
\* C1: when a JSONL source is read successfully with row limit L, the
\* destination is exactly the first min(N, L) lines of the source, each
\* byte-identical to the source line, in order.
C1_JsonlKeepsFirstLinesVerbatim ==
  ( /\ calls > 0
    /\ last.fn \in {"filter_jsonl_file", "copy_example_file"}
    /\ source.suffix \in JsonlSuffixes
    /\ Decode(source.bytes).ok
    /\ last.ret = "True" )
  => dest = FileOf(Concat(Take(ByteLines(source.bytes), LimitUsed)))

\* C1, for sources that hold no carriage return: the statement then holds.
C1_HoldsWithoutCarriageReturn ==
  ( /\ calls > 0
    /\ last.fn \in {"filter_jsonl_file", "copy_example_file"}
    /\ source.suffix \in JsonlSuffixes
    /\ Decode(source.bytes).ok
    /\ last.ret = "True"
    /\ \A n \in 1..Len(source.bytes) : source.bytes[n] # "CR" )
  => dest = FileOf(Concat(Take(ByteLines(source.bytes), LimitUsed)))

\* C2: for a .json source whose top-level value is an array of length N and
\* a row limit L, the destination is a JSON array holding the source's first
\* min(N, L) elements, in order.
C2_JsonArrayKeepsFirstElements ==
  ( /\ calls > 0
    /\ last.fn \in {"filter_json_file", "copy_example_file"}
    /\ source.suffix \in JsonSuffixes
    /\ SourceLoads /\ SourceValue.v.t = "array"
    /\ last.ret = "True" )
  => /\ DestValue.ok
     /\ DestValue.v = Array(Take(SourceValue.v.e, LimitUsed))

\* C2, for arrays none of whose first L elements holds a lone surrogate: the
\* statement then holds.
C2_HoldsWithoutLoneSurrogate ==
  ( /\ calls > 0
    /\ last.fn \in {"filter_json_file", "copy_example_file"}
    /\ source.suffix \in JsonSuffixes
    /\ SourceLoads /\ SourceValue.v.t = "array"
    /\ last.ret = "True"
    /\ ~HoldsSurrogate(Array(Take(SourceValue.v.e, LimitUsed))) )
  => /\ DestValue.ok
     /\ DestValue.v = Array(Take(SourceValue.v.e, LimitUsed))

\* The sample operation succeeded on a source that holds records: a JSONL
\* file that decodes, or a JSON array.
SampledRecords ==
  /\ Sampled /\ last.ret = "True"
  /\ \/ source.suffix \in JsonlSuffixes /\ Decode(source.bytes).ok
     \/ source.suffix \in JsonSuffixes /\ SourceLoads
        /\ SourceValue.v.t = "array"

RecordsInSource ==
  IF source.suffix \in JsonlSuffixes THEN LineCount(source.bytes)
  ELSE Len(SourceValue.v.e)

RecordsKept ==
  IF source.suffix \in JsonlSuffixes THEN LineCount(dest.bytes)
  ELSE Len(DestValue.v.e)

\* C3 as claimed: the sample operation keeps min(N, L) records for the row
\* limit L its caller supplies, not min(N, 20).
C3_KeepsCallersRowLimit ==
  SampledRecords => RecordsKept = Min(RecordsInSource, last.L)

\* C3 as amended: copy_example_file takes no row limit; whatever limit its
\* caller wants, it keeps min(N, 20) records (lines as a text reader counts
\* them, array elements), or all N elements of a JSON array when one of the
\* first 20 holds a lone surrogate and the verbatim copy is taken instead.
C3_KeepsTwentyWhateverTheCallerWants ==
  SampledRecords =>
    RecordsKept =
      IF /\ source.suffix \in JsonSuffixes
         /\ HoldsSurrogate(Array(Take(SourceValue.v.e, TopRows)))
      THEN RecordsInSource
      ELSE Min(RecordsInSource, TopRows)

C3_Witness ==
  /\ SampledRecords
  /\ source.suffix \in JsonlSuffixes
  /\ last.L = 1
  /\ RecordsInSource = TopRows + 1
  /\ RecordsKept = TopRows

\* The sample operation met a .json source that does not parse, or a .jsonl
\* source whose reading failed, with a destination that can be written.
FilterFailsOnSource ==
  /\ Sampled /\ mkdirOk /\ writable
  /\ \/ source.suffix \in JsonSuffixes /\ ~SourceLoads
     \/ /\ source.suffix \in JsonlSuffixes
        /\ ~source.readable \/ ~Decode(source.bytes).ok

C9_OpaqueCopiedVerbatim ==
  (Sampled /\ source.suffix \in OpaqueSuffixes) =>
    /\ last.ret = "True" => dest = FileOf(source.bytes)
    /\ (mkdirOk /\ source.readable /\ writable) => last.ret = "True"

C9_Witness ==
  /\ Sampled /\ last.ret = "True"
  /\ source.suffix = ".jsonl2"
  /\ source.bytes = <<"CR", "BAD">>
  /\ dest = FileOf(source.bytes)

\* C10: a second run of the sample operation on the same unchanged source,
\* destination and limit leaves the destination with the bytes it had after
\* the first run.
C10_SecondRunChangesNothing ==
  (Sampled /\ calls >= 2) => dest = prevDest

C10_Witness ==
  /\ Sampled /\ calls = 2 /\ last.ret = "True"
  /\ source.suffix \in JsonSuffixes
  /\ SourceLoads /\ Len(SourceValue.v.e) > TopRows
  /\ Len(DestValue.v.e) = TopRows
  /\ dest = prevDest

----------------------------------------------------------------------------
\* C5: no exception ends the whole run: whatever happens to a provider, the
\* loop goes on to the remaining providers and main returns an exit status.
C5_NoExceptionEndsTheRun ==
  /\ pc # "crashed"
  /\ pc = "done" => Len(outcomes) = NProviders

ProviderSampled(n) ==
  /\ n <= Len(outcomes)
  /\ outcomes[n] = "sampled"
  /\ examples[ExampleName(n)].exists

\* C6: the exit status is 0 if and only if every provider of the registry
\* yielded a sampled artifact in this run, and 1 otherwise.
C6_ExitStatusZeroIffAllSampled ==
  exit_status # Running =>
    /\ exit_status \in {0, 1}
    /\ exit_status = 0 <=> \A n \in 1..NProviders : ProviderSampled(n)

C6_Witness ==
  /\ pc = "done"
  /\ exit_status = 0
  /\ \A n \in 1..NProviders : ProviderSampled(n)

----------------------------------------------------------------------------
\* The paths below the directory that match one of the patterns.
Matching ==
  {n \in 1..Len(directory.entries) :
     \E q \in 1..Len(patterns) : GlobMatch(directory.entries[n].name, patterns[q])}

LargestMatchFound ==
  /\ found.status = "found"
  /\ found.path \in Matching
  /\ \A m \in Matching :
       directory.entries[found.path].size >= directory.entries[m].size

\* C7: locate returns NotFound exactly when the directory does not exist or
\* nothing below it matches a pattern; otherwise it returns a match whose
\* size is at least that of every other match.
C7_LocateReturnsLargestMatch ==
  found # NotCalled =>
    IF ~directory.exists \/ Matching = {}
    THEN found.status = "None"
    ELSE LargestMatchFound

\* C7, for directories where stat() succeeds on every match: the statement
\* then holds.
C7_HoldsWhenEveryStatSucceeds ==
  ( /\ found # NotCalled
    /\ \A m \in Matching : directory.entries[m].size # StatFails )
  => IF ~directory.exists \/ Matching = {}
     THEN found.status = "None"
     ELSE LargestMatchFound

=============================================================================
